---- MODULE Spec2Model ----
(***************************************************************************)
(* GpuTdpBalancer (src/src/gpu_tdp_balancer/balancer.py) driven by main()  *)
(* (src/src/main.py): start-up, the balancing loop, the limit applier and  *)
(* shutdown, over a small fleet of NVML devices.  All power values are in  *)
(* milliwatts, as in the source.  Device indices are 0-based, as in the    *)
(* source; dicts are functions whose domain is the set of keys.            *)
(***************************************************************************)
EXTENDS Integers, Sequences, FiniteSets, TLC

\* ------------------------------------------------------------- bounds
\* Largest number of devices nvmlDeviceGetCount reports.
MaxGpus == 2

\* ------------------------------------------------- program constants
\* Default thresholds of GpuTdpBalancer.__init__ (percent).
gpu_active_level == 20
gpu_passive_level == 10
\* Default policy of GpuTdpBalancer.__init__ (watts).
DefaultMaxTotalW == 800
DefaultMinPerGpuW == 100

\* ------------------------------------------------------ input domains
\* Device kinds: what NVML reports for a device (mW): the constraints pair
\* (min, max), the default limit, whether the device supports the
\* constraints query at all, whether it supports setting the power limit
\* (a device that does not answers every nvmlDeviceSetPowerManagementLimit
\* with NVML_ERROR_NOT_SUPPORTED), its persistence mode when the process
\* starts ("unsupported": the device has no persistence mode, every
\* persistence call raises NVML_ERROR_NOT_SUPPORTED), and how the device
\* answers nvmlDeviceSetPersistenceMode(DISABLED) ("ok", or "error": the
\* call raises an NVMLError and the mode stays enabled).
Gpu300 ==
    [min |-> 50000, max |-> 300000, dflt |-> 250000, constraints |-> TRUE,
     settable |-> TRUE, persistence |-> "disabled",
     disable |-> "ok"]
Gpu500 ==
    [min |-> 100000, max |-> 500000, dflt |-> 450000, constraints |-> TRUE,
     settable |-> TRUE, persistence |-> "enabled",
     disable |-> "ok"]
Gpu80 ==
    [min |-> 40000, max |-> 80000, dflt |-> 80000, constraints |-> TRUE,
     settable |-> TRUE, persistence |-> "unsupported",
     disable |-> "ok"]
Gpu250 ==
    [min |-> 100000, max |-> 300000, dflt |-> 250000, constraints |-> FALSE,
     settable |-> TRUE, persistence |-> "disabled",
     disable |-> "error"]
GpuNoLimit ==
    [min |-> 50000, max |-> 300000, dflt |-> 250000, constraints |-> TRUE,
     settable |-> FALSE, persistence |-> "enabled",
     disable |-> "ok"]
DeviceTypes == {Gpu300, Gpu500, Gpu80, Gpu250, GpuNoLimit}

\* Fleets of three devices.
LargeFleets ==
    { <<Gpu300, Gpu300, Gpu300>>, <<Gpu300, Gpu500, Gpu80>>,
      <<Gpu250, Gpu500, Gpu300>> }

\* (--max-total-tdp, --min-gpu-tdp) in watts.
Policies ==
    { <<DefaultMaxTotalW, DefaultMinPerGpuW>>, <<400, 50>>, <<50, 100>> }

\* util.gpu values a read can return (percent).
Utils == {0, 5, 15, 25, 90}

\* Outcome of one nvmlDeviceGetUtilizationRates call: util.gpu, or an NVMLError.
ReadOutcomes ==
    {[ok |-> TRUE, gpu |-> u] : u \in Utils} \cup {[ok |-> FALSE, gpu |-> 0]}

\* Outcome of one nvmlDeviceSetPowerManagementLimit call on a device.
WriteOutcomes(dev) ==
    IF dev.settable THEN {"ok", "no_permission", "error"} ELSE {"not_supported"}

\* Outcome of one nvmlDeviceSetPersistenceMode(DISABLED) call in shutdown.
DisableOutcome(dev) == dev.disable

\* Outcome of the limit queries of one device at start-up: constraints
\* answered ("ok") or failing with an error other than not-supported
\* ("error"); for a device without the constraints query, the default limit
\* answered ("fallback") or its query failing ("fallback_error").
ConstraintOutcomes(dev) ==
    IF dev.constraints THEN {"ok", "error"} ELSE {"fallback", "fallback_error"}

\* ------------------------------------------------------------ helpers
Max(a, b) == IF a >= b THEN a ELSE b
Min(a, b) == IF a <= b THEN a ELSE b

EmptyDict == [i \in {} |-> 0]

Indices(n) == 0 .. (n - 1)

RECURSIVE SumOver(_, _)
SumOver(d, S) ==
    IF S = {} THEN 0
    ELSE LET x == CHOOSE y \in S : TRUE
         IN d[x] + SumOver(d, S \ {x})

\* sum(d.values())
SumValues(d) == SumOver(d, DOMAIN d)

\* sorted(keys, key=key.get, reverse=True): descending by key value; the sort
\* is stable, so equal values keep their original (ascending index) order.
RECURSIVE SortedDesc(_, _)
SortedDesc(key, S) ==
    IF S = {} THEN <<>>
    ELSE LET x == CHOOSE y \in S :
                    \A z \in S : key[y] > key[z] \/ (key[y] = key[z] /\ y <= z)
         IN <<x>> \o SortedDesc(key, S \ {x})

VARIABLES
    devices,                 \* hardware: index -> device kind
    nvml_limit,              \* hardware: index -> power limit in force (mW)
    persistence_mode,        \* hardware: index -> persistence mode is enabled
    nvml_state,              \* library: "uninit", "init", "shutdown"
    gpu_max_tdp_total_mw,    \* self.gpu_max_tdp_total_mw
    gpu_min_tdp_per_gpu_mw,  \* self.gpu_min_tdp_per_gpu_mw
    num_gpus,                \* self.num_gpus
    handles,                 \* self.handles (sequence of device indices)
    gpu_max_tdp_limits_mw,   \* self.gpu_max_tdp_limits_mw
    last_tdp_limits_mw,      \* self.last_tdp_limits_mw
    balancer_instance,       \* main.py: balancer_instance is not None
    pc,                      \* position of the main thread
    gpu_statuses,            \* run(): gpu_statuses, index -> utilization
    new_limits_mw,           \* the dict handed to _set_tdp_limits
    idx,                     \* _set_tdp_limits: position in enumerate(handles)
    read_failed,             \* observation: devices whose read failed this cycle
    overrun_log,             \* observation: level of the over-budget log line
    write_log,               \* observation: this call of _set_tdp_limits,
                             \*   index -> [limit, result]
    shutdown_calls,          \* observation: number of shutdown() calls
    shutdown_log,            \* observation: per shutdown() call, index ->
                             \*   what the call did with the device
    query_log                \* observation: index -> how the limit queries of
                             \*   _initialize_nvml ended for the device

vars == << devices, nvml_limit, persistence_mode, nvml_state,
           gpu_max_tdp_total_mw, gpu_min_tdp_per_gpu_mw, num_gpus, handles,
           gpu_max_tdp_limits_mw, last_tdp_limits_mw, balancer_instance, pc,
           gpu_statuses, new_limits_mw, idx, read_failed, overrun_log,
           write_log, shutdown_calls, shutdown_log, query_log >>

\* Python list -> index-keyed function.
Indexed(seq) == [i \in Indices(Len(seq)) |-> seq[i + 1]]

\* Fleets of at most MaxGpus devices: every fleet of up to two devices, and
\* the three-device fleets above.
Fleets ==
    UNION { [Indices(n) -> DeviceTypes] : n \in 0 .. Min(MaxGpus, 2) }
    \cup { Indexed(f) : f \in {g \in LargeFleets : Len(g) <= MaxGpus} }

\* ---------------------------------------------------------------- Init
\* Process start: main() has parsed the arguments; __init__ has stored the
\* policy (lines 29-38) and is about to call _initialize_nvml.
Init ==
    /\ devices \in Fleets
    /\ nvml_limit = [i \in DOMAIN devices |-> devices[i].dflt]
    /\ persistence_mode = [i \in DOMAIN devices |-> devices[i].persistence = "enabled"]
    /\ balancer_instance = FALSE
    /\ nvml_state = "uninit"
    /\ \E p \in Policies :
          /\ gpu_max_tdp_total_mw = p[1] * 1000
          /\ gpu_min_tdp_per_gpu_mw = p[2] * 1000
    /\ num_gpus = 0
    /\ handles = <<>>
    /\ gpu_max_tdp_limits_mw = EmptyDict
    /\ last_tdp_limits_mw = EmptyDict
    /\ pc = "construct"
    /\ gpu_statuses = EmptyDict
    /\ new_limits_mw = EmptyDict
    /\ idx = 0
    /\ read_failed = {}
    /\ overrun_log = "none"
    /\ write_log = EmptyDict
    /\ shutdown_calls = 0
    /\ shutdown_log = <<>>
    /\ query_log = EmptyDict

\* ------------------------------------------------------ pure functions
\* ClampLimit without the clamp to the device's maximum (line 165 forgotten).
ClampLimitNoMax(target, min_mw, max_mw) == Max(min_mw, target)

\* _set_tdp_limits, lines 164-166: the value the applier passes for a target.
ClampLimit(target, min_mw, max_mw) == Min(Max(min_mw, target), max_mw)

\* NeedsWrite without the comparison with the last applied limit.
NeedsWriteAlways(last, i, limit_to_set) == TRUE

\* NeedsWrite that passes over a device with no last applied limit (the
\* "i not in self.last_tdp_limits_mw" of line 169 forgotten).
NeedsWriteChangedOnly(last, i, limit_to_set) ==
    i \in DOMAIN last /\ last[i] # limit_to_set

\* NeedsWrite that compares the first target of a device, which has no last
\* applied limit yet, with the limit in force in the hardware.
NeedsWriteUnlessInForce(last, i, limit_to_set) ==
    IF i \in DOMAIN last THEN last[i] # limit_to_set
    ELSE nvml_limit[i] # limit_to_set

\* _set_tdp_limits, line 169: "only set if the limit has actually changed".
NeedsWrite(last, i, limit_to_set) ==
    i \notin DOMAIN last \/ last[i] # limit_to_set

\* GetGpuStatus with a failed read counted as full load instead of 0.
GetGpuStatusFailedAsBusy(readings) ==
    [i \in DOMAIN readings |-> IF readings[i].ok THEN readings[i].gpu ELSE 100]

\* get_gpu_status, lines 200-208: a failed read counts as utilization 0.
GetGpuStatus(readings) ==
    [i \in DOMAIN readings |-> IF readings[i].ok THEN readings[i].gpu ELSE 0]

\* run, lines 218-225: the devices at or above the active level.
ActiveGpus(statuses) == {i \in DOMAIN statuses : statuses[i] >= gpu_active_level}

\* AllPassive with the passive level ignored: passive whenever no device is
\* active (the elif of lines 224-225 forgotten).
AllPassiveNoActive(statuses) ==
    \A i \in DOMAIN statuses : ~(statuses[i] >= gpu_active_level)

\* run, lines 219-225: all_passive after the classification loop.
AllPassive(statuses) ==
    \A i \in DOMAIN statuses :
        ~(statuses[i] >= gpu_active_level) /\ ~(statuses[i] >= gpu_passive_level)

\* run, lines 250-255 (and _initial_tdp_setup, lines 131-137): take the excess
\* from the devices above the minimum, highest first.
RECURSIVE ReduceExcess(_, _, _, _)
ReduceExcess(order, limits, excess_mw, min_mw) ==
    IF order = <<>> \/ excess_mw <= 0
    THEN [limits |-> limits, excess_mw |-> excess_mw]
    ELSE LET i == Head(order)
             reduction == Min(excess_mw, limits[i] - min_mw)
         IN IF reduction > 0
            THEN ReduceExcess(Tail(order),
                              [limits EXCEPT ![i] = @ - reduction],
                              excess_mw - reduction, min_mw)
            ELSE ReduceExcess(Tail(order), limits, excess_mw, min_mw)

\* BaseLimits with the share proportional to the device's maximum instead of
\* even (computed in whole watts).
BaseLimitsProportional(total_mw, n, min_mw, max_mw) ==
    [i \in Indices(n) |->
        Min(Max(min_mw,
                1000 * (((total_mw \div 1000) * (max_mw[i] \div 1000))
                           \div (SumValues(max_mw) \div 1000))),
            max_mw[i])]

\* BaseLimits without the clamp to the device's maximum (line 239 forgotten).
BaseLimitsNoMaxClamp(total_mw, n, min_mw, max_mw) ==
    [i \in Indices(n) |-> Max(min_mw, total_mw \div n)]

\* run, lines 232-241 (and _initial_tdp_setup, lines 114-121): the even share
\* of the budget, clamped by the minimum and by each device's maximum.
BaseLimits(total_mw, n, min_mw, max_mw) ==
    [i \in Indices(n) |-> Min(Max(min_mw, total_mw \div n), max_mw[i])]

\* run, lines 229-257 (and _initial_tdp_setup, lines 114-143): the passive
\* distribution; first_excess is excess_mw before, excess_mw after the reduction.
EvenDistribution(total_mw, n, min_mw, max_mw) ==
    LET temp_limits == BaseLimits(total_mw, n, min_mw, max_mw)
        excess == SumValues(temp_limits) - total_mw
    IN IF excess > 0
       THEN LET r == ReduceExcess(SortedDesc(temp_limits, DOMAIN temp_limits),
                                  temp_limits, excess, min_mw)
            IN [limits |-> r.limits, first_excess |-> excess,
                excess_mw |-> r.excess_mw]
       ELSE [limits |-> temp_limits, first_excess |-> excess,
             excess_mw |-> excess]

\* MinLimits without the cap by the device's maximum (the min of line 267
\* forgotten).
MinLimitsUncapped(n, min_mw, max_mw) == [i \in Indices(n) |-> min_mw]

\* run, lines 265-267: the minimum for every device, capped by its maximum.
MinLimits(n, min_mw, max_mw) == [i \in Indices(n) |-> Min(min_mw, max_mw[i])]

\* RemainingBudget that does not take off what the minimums already use
\* (the subtraction of line 270 forgotten).
RemainingBudgetWhole(total_mw, n, min_mw, max_mw) == total_mw

\* run, lines 269-275: the budget left above the minimums; negative when the
\* minimums alone exceed the budget (logged, then treated as 0).
RemainingBudget(total_mw, n, min_mw, max_mw) ==
    total_mw - SumValues(MinLimits(n, min_mw, max_mw))

\* sorted(keys, key=key.get): ascending by key value, stable.
RECURSIVE SortedAsc(_, _)
SortedAsc(key, S) ==
    IF S = {} THEN <<>>
    ELSE LET x == CHOOSE y \in S :
                    \A z \in S : key[y] < key[z] \/ (key[y] = key[z] /\ y <= z)
         IN <<x>> \o SortedAsc(key, S \ {x})

\* ActiveOrder sorted by ascending utilization (reverse=True forgotten).
ActiveOrderAscending(statuses) == SortedAsc(statuses, ActiveGpus(statuses))

\* run, line 262: active_gpus.sort(key=utilization, reverse=True).
ActiveOrder(statuses) == SortedDesc(statuses, ActiveGpus(statuses))

\* DistributeRemaining that hands out nothing (the loop of lines 280-294
\* forgotten).
DistributeRemainingNothing(order, limits, remaining_budget_mw, max_mw) == limits

\* run, lines 280-294: hand the remaining budget to the active devices in order.
RECURSIVE DistributeRemaining(_, _, _, _)
DistributeRemaining(order, limits, remaining_budget_mw, max_mw) ==
    IF order = <<>> \/ remaining_budget_mw <= 0 THEN limits
    ELSE LET index == Head(order)
             potential_increase == max_mw[index] - limits[index]
             increase_amount == Min(remaining_budget_mw, potential_increase)
         IN IF increase_amount > 0
            THEN DistributeRemaining(Tail(order),
                                     [limits EXCEPT ![index] = @ + increase_amount],
                                     remaining_budget_mw - increase_amount, max_mw)
            ELSE DistributeRemaining(Tail(order), limits,
                                     remaining_budget_mw, max_mw)

\* ActiveDistribution handing out the whole budget on top of the minimums
\* (the subtraction of line 270 forgotten).
ActiveDistributionWholeBudget(statuses, total_mw, n, min_mw, max_mw) ==
    DistributeRemaining(ActiveOrder(statuses), MinLimits(n, min_mw, max_mw),
                        total_mw, max_mw)

\* run, lines 259-294: the allocation of the branch taken when not all_passive.
ActiveDistribution(statuses, total_mw, n, min_mw, max_mw) ==
    DistributeRemaining(ActiveOrder(statuses),
                        MinLimits(n, min_mw, max_mw),
                        Max(0, RemainingBudget(total_mw, n, min_mw, max_mw)),
                        max_mw)

\* run, lines 227-295: new_limits_mw for the statuses read in this cycle.
ComputeLimits(statuses, total_mw, n, min_mw, max_mw) ==
    IF AllPassive(statuses)
    THEN EvenDistribution(total_mw, n, min_mw, max_mw).limits
    ELSE ActiveDistribution(statuses, total_mw, n, min_mw, max_mw)

\* run, lines 244-246 and 272-274: the level of the over-budget diagnostic.
CycleOverrunLog(statuses, total_mw, n, min_mw, max_mw) ==
    IF AllPassive(statuses)
    THEN IF EvenDistribution(total_mw, n, min_mw, max_mw).first_excess > 0
         THEN "debug" ELSE "none"
    ELSE IF RemainingBudget(total_mw, n, min_mw, max_mw) < 0
         THEN "error" ELSE "none"

\* _initial_tdp_setup, lines 127-143: warning when the first pass exceeds the
\* budget, error when the reduction could not remove the excess.
InitialOverrunLog(total_mw, n, min_mw, max_mw) ==
    LET d == EvenDistribution(total_mw, n, min_mw, max_mw)
    IN IF d.first_excess <= 0 THEN "none"
       ELSE IF d.excess_mw > 0 THEN "error" ELSE "warning"

\* ------------------------------------------------------------- actions
\* dict[i] = v
DictSet(d, i, v) == [j \in (DOMAIN d) \cup {i} |-> IF j = i THEN v ELSE d[j]]

\* _initialize_nvml, lines 72-84: the limit stored as the device's maximum:
\* the second constraint, or the default limit when constraints are not supported.
QueriedMaxLimit(dev, outcome) == IF outcome = "ok" THEN dev.max ELSE dev.dflt

\* _initialize_nvml, lines 93-96: the budget is clamped to the sum of the maxima.
ClampedTotal(total_mw, max_mw) == Min(total_mw, SumValues(max_mw))

\* QueryFails with the not-supported answer of the constraints query
\* counted as a failure too (the fallback of lines 78-84 forgotten).
QueryFailsOnNotSupported(outcome) == outcome # "ok"

\* _initialize_nvml, lines 72-90: the limit queries of a device end in a
\* RuntimeError: the constraints query failed with an error other than
\* not-supported (line 90), or the default-limit query failed (line 87).
QueryFails(outcome) == outcome \in {"error", "fallback_error"}

\* _initialize_nvml, lines 60-69: the persistence mode of a device after
\* nvmlDeviceSetPersistenceMode(handle, NVML_FEATURE_ENABLED); an error is
\* logged and leaves the mode as it was.
PersistenceAfterEnable(dev, enabled) ==
    IF dev.persistence = "unsupported" THEN enabled ELSE TRUE

\* __init__ line 41, _initialize_nvml (lines 45-106).  A RuntimeError leaves
\* __init__ for the except clauses of main() (main.py lines 71-84).
InitializeNvml ==
    /\ pc = "construct"
    /\ \E init_ok \in BOOLEAN,
          q \in {f \in [DOMAIN devices -> {"ok", "error", "fallback", "fallback_error"}] :
                   \A i \in DOMAIN devices : f[i] \in ConstraintOutcomes(devices[i])} :
          LET n == Cardinality(DOMAIN devices)
              bad == {i \in DOMAIN devices : QueryFails(q[i])}
              first_bad == CHOOSE i \in bad : \A j \in bad : i <= j
              \* the devices the loop of line 56 got to
              visited == IF bad = {} THEN Indices(n) ELSE Indices(first_bad + 1)
              enabled == [i \in DOMAIN devices |->
                            IF i \in visited
                            THEN PersistenceAfterEnable(devices[i], persistence_mode[i])
                            ELSE persistence_mode[i]]
          IN IF ~init_ok
             THEN /\ pc' = "main_except"
                  /\ UNCHANGED << nvml_state, num_gpus, handles, persistence_mode,
                                  query_log, gpu_max_tdp_limits_mw,
                                  gpu_max_tdp_total_mw >>
             ELSE IF n = 0
             THEN /\ pc' = "main_except"
                  /\ nvml_state' = "init"
                  /\ UNCHANGED << num_gpus, handles, persistence_mode, query_log,
                                  gpu_max_tdp_limits_mw, gpu_max_tdp_total_mw >>
             ELSE IF bad # {}
             THEN /\ pc' = "main_except"
                  /\ nvml_state' = "init"
                  /\ num_gpus' = n
                  /\ handles' = [j \in 1 .. (first_bad + 1) |-> j - 1]
                  /\ persistence_mode' = enabled
                  /\ query_log' = [i \in visited |-> q[i]]
                  /\ gpu_max_tdp_limits_mw' =
                        [i \in Indices(first_bad) |-> QueriedMaxLimit(devices[i], q[i])]
                  /\ UNCHANGED gpu_max_tdp_total_mw
             ELSE LET max_mw == [i \in Indices(n) |-> QueriedMaxLimit(devices[i], q[i])]
                  IN /\ pc' = "initial_setup"
                     /\ nvml_state' = "init"
                     /\ num_gpus' = n
                     /\ handles' = [j \in 1 .. n |-> j - 1]
                     /\ persistence_mode' = enabled
                     /\ query_log' = [i \in visited |-> q[i]]
                     /\ gpu_max_tdp_limits_mw' = max_mw
                     /\ gpu_max_tdp_total_mw' = ClampedTotal(gpu_max_tdp_total_mw, max_mw)
    /\ UNCHANGED << devices, nvml_limit, gpu_min_tdp_per_gpu_mw, last_tdp_limits_mw,
                    balancer_instance, gpu_statuses, new_limits_mw, idx, read_failed,
                    overrun_log, write_log, shutdown_calls, shutdown_log >>

\* __init__ line 42, _initial_tdp_setup (lines 108-147) up to the call of
\* _set_tdp_limits.  num_gpus is not 0 here: _initialize_nvml raised otherwise.
InitialTdpSetup ==
    /\ pc = "initial_setup"
    /\ new_limits_mw' = EvenDistribution(gpu_max_tdp_total_mw, num_gpus,
                                         gpu_min_tdp_per_gpu_mw,
                                         gpu_max_tdp_limits_mw).limits
    /\ overrun_log' = InitialOverrunLog(gpu_max_tdp_total_mw, num_gpus,
                                        gpu_min_tdp_per_gpu_mw, gpu_max_tdp_limits_mw)
    /\ idx' = 0
    /\ write_log' = EmptyDict
    /\ pc' = "startup_apply"
    /\ UNCHANGED << devices, query_log, nvml_limit, persistence_mode, nvml_state,
                    gpu_max_tdp_total_mw, gpu_min_tdp_per_gpu_mw, num_gpus, handles,
                    gpu_max_tdp_limits_mw, last_tdp_limits_mw, balancer_instance,
                    gpu_statuses, read_failed, shutdown_calls, shutdown_log >>

\* Where _set_tdp_limits returns to once the last handle is done: __init__
\* line 43 from the start-up call, time.sleep (run, line 301) from the loop.
AfterApply(at, position, n) ==
    IF position + 1 < n THEN at
    ELSE IF at = "startup_apply" THEN "initialized" ELSE "sleep"

\* AfterWriteError with the permission error handled like the other errors
\* (the raise of line 185 forgotten).
AfterWriteErrorNoRaise(at, position, n, outcome) == AfterApply(at, position, n)

\* AfterWriteError that gives up the whole call at the first failed write
\* (a return in place of going on with the next handle).
AfterWriteErrorEndsCall(at, position, n, outcome) ==
    IF outcome = "no_permission"
    THEN IF at = "startup_apply" THEN "main_except" ELSE "finally"
    ELSE IF at = "startup_apply" THEN "initialized" ELSE "sleep"

\* AfterWriteError with every failed write raising, not only the permission
\* error (the test of line 184 forgotten).
AfterWriteErrorAllFatal(at, position, n, outcome) ==
    IF at = "startup_apply" THEN "main_except" ELSE "finally"

\* _set_tdp_limits, lines 177-185: where a failed write leaves the thread.  A
\* permission error raises RuntimeError: out of __init__ to the except
\* clauses of main(), or out of the loop to run()'s finally.
AfterWriteError(at, position, n, outcome) ==
    IF outcome = "no_permission"
    THEN IF at = "startup_apply" THEN "main_except" ELSE "finally"
    ELSE AfterApply(at, position, n)

\* LastAfterWrite that records the limit before the write is known to have
\* succeeded (line 172 moved above line 171).
LastAfterWriteRecordFirst(last, i, limit_to_set, outcome) ==
    DictSet(last, i, limit_to_set)

\* _set_tdp_limits, lines 170-177: self.last_tdp_limits_mw after the write
\* to device i.  Line 172 runs only when nvmlDeviceSetPowerManagementLimit
\* returned; an NVMLError jumps over it.
LastAfterWrite(last, i, limit_to_set, outcome) ==
    IF outcome = "ok" THEN DictSet(last, i, limit_to_set) ELSE last

\* _set_tdp_limits (lines 150-190): one iteration of the loop over the handles.
SetTdpLimit ==
    /\ pc \in {"startup_apply", "run_apply"}
    /\ idx < Len(handles)
    /\ LET i == handles[idx + 1]
           limit_to_set == ClampLimit(new_limits_mw[i], gpu_min_tdp_per_gpu_mw,
                                      gpu_max_tdp_limits_mw[i])
       IN IF i \notin DOMAIN new_limits_mw
          THEN /\ idx' = idx + 1
               /\ pc' = AfterApply(pc, idx, Len(handles))
               /\ UNCHANGED << nvml_limit, last_tdp_limits_mw, write_log >>
          ELSE IF NeedsWrite(last_tdp_limits_mw, i, limit_to_set)
          THEN \E outcome \in WriteOutcomes(devices[i]) :
                  /\ write_log' = DictSet(write_log, i,
                                      [limit |-> limit_to_set, result |-> outcome])
                  /\ last_tdp_limits_mw' =
                        LastAfterWrite(last_tdp_limits_mw, i, limit_to_set, outcome)
                  /\ IF outcome = "ok"
                     THEN /\ nvml_limit' = [nvml_limit EXCEPT ![i] = limit_to_set]
                          /\ idx' = idx + 1
                          /\ pc' = AfterApply(pc, idx, Len(handles))
                     ELSE /\ UNCHANGED nvml_limit
                          /\ idx' = IF outcome = "no_permission" THEN idx ELSE idx + 1
                          /\ pc' = AfterWriteError(pc, idx, Len(handles), outcome)
          ELSE /\ write_log' = DictSet(write_log, i,
                                   [limit |-> limit_to_set, result |-> "skipped"])
               /\ idx' = idx + 1
               /\ pc' = AfterApply(pc, idx, Len(handles))
               /\ UNCHANGED << nvml_limit, last_tdp_limits_mw >>
    /\ UNCHANGED << devices, query_log, persistence_mode, nvml_state, gpu_max_tdp_total_mw,
                    gpu_min_tdp_per_gpu_mw, num_gpus, handles, gpu_max_tdp_limits_mw,
                    balancer_instance, gpu_statuses, new_limits_mw, read_failed,
                    overrun_log, shutdown_calls, shutdown_log >>

\* __init__ line 43 and main.py lines 61-69: construction is complete, the
\* instance is assigned to balancer_instance and run() starts.  The locals of
\* _initial_tdp_setup are gone.
EnterRun ==
    /\ pc = "initialized"
    /\ pc' = "loop"
    /\ balancer_instance' = TRUE
    /\ new_limits_mw' = EmptyDict
    /\ write_log' = EmptyDict
    /\ overrun_log' = "none"
    /\ idx' = 0
    /\ UNCHANGED << devices, query_log, nvml_limit, persistence_mode, nvml_state,
                    gpu_max_tdp_total_mw, gpu_min_tdp_per_gpu_mw, num_gpus, handles,
                    gpu_max_tdp_limits_mw, last_tdp_limits_mw, gpu_statuses,
                    read_failed, shutdown_calls, shutdown_log >>

\* run, lines 215-298: one iteration up to the call of _set_tdp_limits: read
\* every device, classify, compute new_limits_mw.
BalanceCycle ==
    /\ pc = "loop"
    /\ \E readings \in [Indices(Len(handles)) -> ReadOutcomes] :
          LET statuses == GetGpuStatus(readings)
          IN /\ gpu_statuses' = statuses
             /\ read_failed' = {i \in DOMAIN readings : ~readings[i].ok}
             /\ new_limits_mw' = ComputeLimits(statuses, gpu_max_tdp_total_mw,
                                               num_gpus, gpu_min_tdp_per_gpu_mw,
                                               gpu_max_tdp_limits_mw)
             /\ overrun_log' = CycleOverrunLog(statuses, gpu_max_tdp_total_mw,
                                               num_gpus, gpu_min_tdp_per_gpu_mw,
                                               gpu_max_tdp_limits_mw)
    /\ idx' = 0
    /\ write_log' = EmptyDict
    /\ pc' = "run_apply"
    /\ UNCHANGED << devices, query_log, nvml_limit, persistence_mode, nvml_state,
                    gpu_max_tdp_total_mw, gpu_min_tdp_per_gpu_mw, num_gpus, handles,
                    gpu_max_tdp_limits_mw, last_tdp_limits_mw, balancer_instance,
                    shutdown_calls, shutdown_log >>

\* run, line 301: time.sleep, then the next iteration.  The locals of the
\* iteration are gone.
Sleep ==
    /\ pc = "sleep"
    /\ pc' = "loop"
    /\ gpu_statuses' = EmptyDict
    /\ new_limits_mw' = EmptyDict
    /\ read_failed' = {}
    /\ overrun_log' = "none"
    /\ write_log' = EmptyDict
    /\ idx' = 0
    /\ UNCHANGED << devices, query_log, nvml_limit, persistence_mode, nvml_state,
                    gpu_max_tdp_total_mw, gpu_min_tdp_per_gpu_mw, num_gpus, handles,
                    gpu_max_tdp_limits_mw, last_tdp_limits_mw, balancer_instance,
                    shutdown_calls, shutdown_log >>

\* ShutdownResult with the persistence mode put back only where it was
\* disabled when the process started.
ShutdownResultRestoring(dev, enabled, lib_init, outcome) ==
    IF ~lib_init \/ dev.persistence = "unsupported" THEN "get_failed"
    ELSE IF ~enabled \/ dev.persistence = "enabled" THEN "off"
    ELSE IF outcome = "ok" THEN "disabled" ELSE "failed"

\* ShutdownResult that does not ask for the mode and disables it blindly,
\* whatever the state of the library.
ShutdownResultBlind(dev, enabled, lib_init, outcome) ==
    IF outcome = "ok" THEN "disabled" ELSE "failed"

\* shutdown, lines 319-331: what one pass of the loop does with a device.
\* nvmlDeviceGetPersistenceMode raises when the library is not initialized
\* (any more) or the device has no persistence mode ("get_failed": nothing is
\* set); a device found disabled is left alone ("off"); a device found
\* enabled gets nvmlDeviceSetPersistenceMode(DISABLED), which succeeds
\* ("disabled") or raises ("failed"); every NVMLError is caught.
ShutdownResult(dev, enabled, lib_init, outcome) ==
    IF ~lib_init \/ dev.persistence = "unsupported" THEN "get_failed"
    ELSE IF ~enabled THEN "off"
    ELSE IF outcome = "ok" THEN "disabled" ELSE "failed"

\* shutdown (lines 310-336): the loop over self.handles, then nvmlShutdown,
\* whose NVMLError (library not initialized) is caught and logged.
ShutdownCall ==
    LET done == [i \in {handles[j] : j \in 1 .. Len(handles)} |->
                    ShutdownResult(devices[i], persistence_mode[i],
                                   nvml_state = "init", DisableOutcome(devices[i]))]
    IN /\ persistence_mode' =
             [i \in DOMAIN persistence_mode |->
                 IF i \in DOMAIN done /\ done[i] = "disabled"
                 THEN FALSE ELSE persistence_mode[i]]
       /\ nvml_state' = "shutdown"
       /\ shutdown_calls' = shutdown_calls + 1
       /\ shutdown_log' = Append(shutdown_log, done)

\* shutdown is not called.
NoShutdownCall ==
    UNCHANGED << persistence_mode, nvml_state, shutdown_calls, shutdown_log >>

\* run, lines 303-308: the exception is logged, the finally block calls
\* shutdown(), run() returns and main() ends.
Shutdown ==
    /\ pc = "finally"
    /\ ShutdownCall
    /\ pc' = "exit"
    /\ UNCHANGED << devices, query_log, nvml_limit, gpu_max_tdp_total_mw, gpu_min_tdp_per_gpu_mw,
                    num_gpus, handles, gpu_max_tdp_limits_mw, last_tdp_limits_mw,
                    balancer_instance, gpu_statuses, new_limits_mw, idx, read_failed,
                    overrun_log, write_log >>

\* main.py lines 71-84: an exception out of the constructor (or out of run)
\* is logged, shutdown() is called if balancer_instance is set, sys.exit(1).
MainExcept ==
    /\ pc = "main_except"
    /\ IF balancer_instance THEN ShutdownCall ELSE NoShutdownCall
    /\ pc' = "exit"
    /\ UNCHANGED << devices, query_log, nvml_limit, gpu_max_tdp_total_mw, gpu_min_tdp_per_gpu_mw,
                    num_gpus, handles, gpu_max_tdp_limits_mw, last_tdp_limits_mw,
                    balancer_instance, gpu_statuses, new_limits_mw, idx, read_failed,
                    overrun_log, write_log >>

\* The positions of the main thread inside the try block of run().
InRunLoop == pc \in {"loop", "run_apply", "sleep"}

\* main.py lines 10-18: SIGINT or SIGTERM is delivered while the process
\* runs.  The handler calls shutdown() if balancer_instance is set, then
\* sys.exit(0) raises SystemExit in the main thread: inside run()'s try it
\* passes "except Exception" and runs the finally block (the locals of the
\* iteration are gone); anywhere else it ends the process.
SignalHandler ==
    /\ pc \notin {"exit"}
    /\ IF balancer_instance THEN ShutdownCall ELSE NoShutdownCall
    /\ IF InRunLoop
       THEN /\ pc' = "finally"
            /\ gpu_statuses' = EmptyDict
            /\ new_limits_mw' = EmptyDict
            /\ read_failed' = {}
            /\ overrun_log' = "none"
            /\ write_log' = EmptyDict
            /\ idx' = 0
       ELSE /\ pc' = "exit"
            /\ UNCHANGED << gpu_statuses, new_limits_mw, read_failed, overrun_log,
                            write_log, idx >>
    /\ UNCHANGED << devices, query_log, nvml_limit, gpu_max_tdp_total_mw, gpu_min_tdp_per_gpu_mw,
                    num_gpus, handles, gpu_max_tdp_limits_mw, last_tdp_limits_mw,
                    balancer_instance >>

Next ==
    \/ InitializeNvml
    \/ InitialTdpSetup
    \/ SetTdpLimit
    \/ EnterRun
    \/ BalanceCycle
    \/ Sleep
    \/ Shutdown
    \/ MainExcept
    \/ SignalHandler

Spec == Init /\ [][Next]_vars

\* The main thread is always scheduled: every enabled step is eventually taken.
FairSpec == Spec /\ WF_vars(Next)

\* ------------------------------------------------ phases of a behaviour
\* The start-up assignment has been computed (and run() has not started).
InStartupAssignment == new_limits_mw # EmptyDict /\ gpu_statuses = EmptyDict

\* A loop iteration has read the statuses and computed new_limits_mw.
InCycle == gpu_statuses # EmptyDict

\* The three classifications of a cycle, from the utilizations read in it
\* and the two levels.
ActiveCycle ==
    InCycle /\ \E i \in DOMAIN gpu_statuses : gpu_statuses[i] >= gpu_active_level
PassiveCycle ==
    InCycle /\ \A i \in DOMAIN gpu_statuses : gpu_statuses[i] < gpu_passive_level
TransitionCycle ==
    /\ InCycle
    /\ \A i \in DOMAIN gpu_statuses : gpu_statuses[i] < gpu_active_level
    /\ \E i \in DOMAIN gpu_statuses : gpu_statuses[i] >= gpu_passive_level

\* The devices nvmlDeviceSetPowerManagementLimit was called for in the current
\* call of _set_tdp_limits.
SetLimitCalls == {i \in DOMAIN write_log : write_log[i].result # "skipped"}

\* The current call of _set_tdp_limits has gone through every handle.
ApplyComplete == pc \in {"initialized", "sleep"}

\* -------------------------------------------------------------- claims

\* Targets handed to the applier beyond what the allocator produces (mW).
SyntheticTargets == {0, 45000, 99999, 260000, 1000000}

\* C1 (as claimed): every value passed to nvmlDeviceSetPowerManagementLimit
\* for device i lies in [max(configMin, hwMin_i), hwMax_i], at start-up and in
\* every cycle, for every target including out-of-range ones.
C1_SetLimitWithinHardwareBounds ==
    /\ \A i \in SetLimitCalls :
          /\ write_log[i].limit >= Max(gpu_min_tdp_per_gpu_mw, devices[i].min)
          /\ write_log[i].limit <= devices[i].max
    /\ \A i \in DOMAIN gpu_max_tdp_limits_mw : \A t \in SyntheticTargets :
          LET w == ClampLimit(t, gpu_min_tdp_per_gpu_mw, gpu_max_tdp_limits_mw[i])
          IN w >= Max(gpu_min_tdp_per_gpu_mw, devices[i].min) /\ w <= devices[i].max

\* C1 (amended): every value passed to nvmlDeviceSetPowerManagementLimit for
\* device i lies in [min(configMin, max_i), max_i], where max_i is the maximum
\* stored for the device at start-up; so does the clamp of every synthetic
\* target.  The device's hardware minimum is not consulted.
C1_SetLimitWithinPolicyAndMax ==
    /\ \A i \in SetLimitCalls :
          /\ write_log[i].limit >=
                Min(gpu_min_tdp_per_gpu_mw, gpu_max_tdp_limits_mw[i])
          /\ write_log[i].limit <= gpu_max_tdp_limits_mw[i]
          /\ write_log[i].limit <= devices[i].max
    /\ \A i \in DOMAIN gpu_max_tdp_limits_mw : \A t \in SyntheticTargets :
          LET w == ClampLimit(t, gpu_min_tdp_per_gpu_mw, gpu_max_tdp_limits_mw[i])
          IN /\ w >= Min(gpu_min_tdp_per_gpu_mw, gpu_max_tdp_limits_mw[i])
             /\ w <= gpu_max_tdp_limits_mw[i]

\* C1 witness: a write in a cycle passes a value below the device's hardware
\* minimum (configMin is below it), on a device whose maximum is above configMin.
C1_Witness ==
    /\ InCycle
    /\ \E i \in SetLimitCalls :
          /\ write_log[i].limit < devices[i].min
          /\ gpu_max_tdp_limits_mw[i] > gpu_min_tdp_per_gpu_mw
          /\ write_log[i].result = "ok"

\* C2 (as claimed): with the budget at least n x configMin, the allocation of
\* the start-up assignment and of a cycle without active device sums to at
\* most the budget and gives every device at least configMin.
C2_NonActiveAtLeastConfigMin ==
    (/\ InStartupAssignment \/ (InCycle /\ ~ActiveCycle)
     /\ gpu_max_tdp_total_mw >= num_gpus * gpu_min_tdp_per_gpu_mw)
    => /\ SumValues(new_limits_mw) <= gpu_max_tdp_total_mw
       /\ \A i \in DOMAIN new_limits_mw : new_limits_mw[i] >= gpu_min_tdp_per_gpu_mw

\* C2 (amended): under the same condition the allocation sums to at most the
\* budget, gives every device whose maximum is at least configMin at least
\* configMin, and gives a device whose maximum is below configMin its maximum.
C2_NonActiveWithinBudgetAndFloor ==
    (/\ InStartupAssignment \/ (InCycle /\ ~ActiveCycle)
     /\ gpu_max_tdp_total_mw >= num_gpus * gpu_min_tdp_per_gpu_mw)
    => /\ SumValues(new_limits_mw) <= gpu_max_tdp_total_mw
       /\ \A i \in DOMAIN new_limits_mw :
             IF gpu_max_tdp_limits_mw[i] >= gpu_min_tdp_per_gpu_mw
             THEN new_limits_mw[i] >= gpu_min_tdp_per_gpu_mw
             ELSE new_limits_mw[i] = gpu_max_tdp_limits_mw[i]

\* C2 witness: a passive cycle over two devices, one with a maximum below
\* configMin, with the budget above n x configMin.
C2_Witness ==
    /\ PassiveCycle
    /\ num_gpus = 2
    /\ gpu_max_tdp_total_mw >= num_gpus * gpu_min_tdp_per_gpu_mw
    /\ \E i \in DOMAIN new_limits_mw :
          gpu_max_tdp_limits_mw[i] < gpu_min_tdp_per_gpu_mw
    /\ \E i \in DOMAIN new_limits_mw : new_limits_mw[i] > gpu_min_tdp_per_gpu_mw

\* A write of the current cycle was refused for lack of permission.
PermissionDeniedInLoop ==
    InCycle /\ \E i \in DOMAIN write_log : write_log[i].result = "no_permission"

\* C3 (as claimed): in a cycle in which the utilization read failed for some
\* device, no allocation is computed and no write is issued.
C3_ReadFailureAbortsCycle ==
    read_failed # {} => (new_limits_mw = EmptyDict /\ SetLimitCalls = {})

\* C3 (amended): a failed read does not abort the cycle: the device counts as
\* having utilization 0, the allocation is the one computed for these
\* statuses, in which every device has its entry, and the cycle goes on: the
\* applier can always take its next step, each step moves on to the next
\* handle, to the sleep or (a write refused for lack of permission) to the end
\* of the loop, and after the sleep the next cycle starts; only a termination
\* signal cuts this short.
C3_ReadFailureCountsAsIdle ==
    /\ [](read_failed # {} =>
            /\ \A i \in read_failed : gpu_statuses[i] = 0
            /\ DOMAIN new_limits_mw = DOMAIN gpu_statuses
            /\ new_limits_mw = ComputeLimits(gpu_statuses, gpu_max_tdp_total_mw,
                                  num_gpus, gpu_min_tdp_per_gpu_mw,
                                  gpu_max_tdp_limits_mw)
            /\ (pc = "run_apply" => ENABLED SetTdpLimit)
            /\ (pc = "sleep" => ENABLED Sleep))
    /\ [][(read_failed # {} /\ pc = "run_apply") =>
            \/ pc' = "run_apply" /\ idx' = idx + 1
            \/ pc' = "sleep" /\ idx' = Len(handles)
            \/ pc' = "finally" /\ PermissionDeniedInLoop'
            \/ SignalHandler]_vars
    /\ [][(read_failed # {} /\ pc = "sleep") => (pc' = "loop" \/ SignalHandler)]_vars

\* C3 witness: a cycle in which a read failed has issued a write and reached
\* its sleep.
C3_Witness ==
    /\ pc = "sleep"
    /\ read_failed # {}
    /\ \E i \in SetLimitCalls : write_log[i].result = "ok"

\* C4: once a write in the loop has failed with a permission error, nothing
\* more is written (no further call, no change of the hardware limits or of
\* the last applied limits, for the rest of this cycle and for ever) and the
\* loop is not resumed: the thread is in run()'s finally block, where its one
\* possible step is shutdown(), or has executed shutdown() and ended.
C4_PermissionErrorAbortsLoop ==
    /\ [][PermissionDeniedInLoop =>
            /\ write_log' = write_log
            /\ nvml_limit' = nvml_limit
            /\ last_tdp_limits_mw' = last_tdp_limits_mw
            /\ pc = "finally" /\ pc' = "exit"
            /\ shutdown_calls' = 1 /\ nvml_state' = "shutdown"]_vars
    /\ [](PermissionDeniedInLoop =>
            \/ pc = "finally" /\ shutdown_calls = 0 /\ ENABLED Shutdown
            \/ pc = "exit" /\ shutdown_calls = 1 /\ nvml_state = "shutdown")

\* C4 witness: the first write of a cycle over two devices succeeded, the second
\* was refused, and shutdown() has run.
C4_Witness ==
    /\ PermissionDeniedInLoop
    /\ pc = "exit"
    /\ shutdown_calls = 1
    /\ nvml_state = "shutdown"
    /\ \E i \in SetLimitCalls : write_log[i].result = "ok"

\* The value the applier passes for device i under the current new_limits_mw.
LimitToSet(i) ==
    ClampLimit(new_limits_mw[i], gpu_min_tdp_per_gpu_mw, gpu_max_tdp_limits_mw[i])

\* The devices a further call of _set_tdp_limits with the same new_limits_mw
\* would call nvmlDeviceSetPowerManagementLimit for.
SecondCallWrites ==
    {i \in DOMAIN new_limits_mw : NeedsWrite(last_tdp_limits_mw, i, LimitToSet(i))}

\* C5 (as claimed): after a call of the applier, a second call with the same
\* allocation issues no write, whatever the outcome of the first call's writes.
C5_SecondCallWritesNothing ==
    ApplyComplete => SecondCallWrites = {}

\* C5 (amended): after a call of the applier, a second call with the same
\* allocation issues no write for a device whose write succeeded or was
\* suppressed in the first call, and issues the write again for a device
\* whose write failed (not supported, or another error) in the first call:
\* a complete call leaves the last applied limit of every written or
\* suppressed device equal to its clamped target, and in every call a device
\* is passed over exactly when its clamped target equals its last applied limit.
C5_SecondCallWritesOnlyFailed ==
    /\ [](ApplyComplete =>
            /\ DOMAIN write_log = DOMAIN new_limits_mw
            /\ SecondCallWrites =
                  {i \in DOMAIN write_log :
                      write_log[i].result \in {"not_supported", "error"}}
            /\ \A i \in DOMAIN write_log :
                  write_log[i].result \in {"ok", "skipped"} =>
                      last_tdp_limits_mw[i] = LimitToSet(i))
    /\ [][\A i \in (DOMAIN write_log') \ (DOMAIN write_log) :
             (write_log'[i].result = "skipped") <=>
                 (i \in DOMAIN last_tdp_limits_mw
                    /\ last_tdp_limits_mw[i] = LimitToSet(i))]_vars

\* C5 witness: a cycle's call over two devices is complete, one write
\* succeeded and one was suppressed.
C5_Witness ==
    /\ pc = "sleep"
    /\ \E i, j \in DOMAIN write_log :
          write_log[i].result = "ok" /\ write_log[j].result = "skipped"

\* C6 (as claimed): a cycle with no active device but a utilization at or
\* above the passive level gets the allocation of a passive cycle over the
\* same devices and policy.
C6_TransitionSameAsPassive ==
    TransitionCycle =>
        new_limits_mw = EvenDistribution(gpu_max_tdp_total_mw, num_gpus,
                            gpu_min_tdp_per_gpu_mw, gpu_max_tdp_limits_mw).limits

\* C6 (amended): the branch is chosen from the current statuses only: a
\* passive cycle (every utilization below the passive level) gets the even
\* distribution; every other cycle takes the active branch, so a transition
\* cycle, having no active device, gives every device min(configMin, max_i).
C6_TransitionTakesActiveBranch ==
    /\ PassiveCycle =>
          new_limits_mw = EvenDistribution(gpu_max_tdp_total_mw, num_gpus,
                              gpu_min_tdp_per_gpu_mw, gpu_max_tdp_limits_mw).limits
    /\ TransitionCycle =>
          new_limits_mw = [i \in Indices(num_gpus) |->
                              Min(gpu_min_tdp_per_gpu_mw, gpu_max_tdp_limits_mw[i])]
    /\ ActiveCycle =>
          new_limits_mw = ActiveDistribution(gpu_statuses, gpu_max_tdp_total_mw,
                              num_gpus, gpu_min_tdp_per_gpu_mw, gpu_max_tdp_limits_mw)

\* C6 witness: a transition cycle whose allocation differs from the passive one.
C6_Witness ==
    /\ TransitionCycle
    /\ num_gpus = 2
    /\ new_limits_mw # EvenDistribution(gpu_max_tdp_total_mw, num_gpus,
                           gpu_min_tdp_per_gpu_mw, gpu_max_tdp_limits_mw).limits

\* The devices are those of the scenarios: maxima 300 W and 500 W, budget
\* 400 W, configMin 50 W.
Scenario300And500 ==
    /\ num_gpus = 2
    /\ gpu_max_tdp_limits_mw = (0 :> 300000 @@ 1 :> 500000)
    /\ gpu_max_tdp_total_mw = 400000
    /\ gpu_min_tdp_per_gpu_mw = 50000

\* C7 (as claimed): in a cycle whose devices are all below the passive
\* level (the plainest cycle without active device), device i gets the share
\* of the budget proportional to its maximum, raised to configMin (stated for
\* the fleets whose maxima are all at least configMin, where this floor and
\* the device's maximum cannot conflict); in the scenario with utilizations
\* (0, 0) the targets are 150 W and 250 W.
C7_ProportionalToCapacity ==
    /\ (/\ PassiveCycle
        /\ \A i \in DOMAIN gpu_max_tdp_limits_mw :
              gpu_max_tdp_limits_mw[i] >= gpu_min_tdp_per_gpu_mw) =>
          \A i \in DOMAIN new_limits_mw :
              LET Watts(mw) == mw \div 1000
                  ProportionalShareW ==
                      (Watts(gpu_max_tdp_total_mw) * Watts(gpu_max_tdp_limits_mw[i]))
                          \div Watts(SumValues(gpu_max_tdp_limits_mw))
              IN  Watts(new_limits_mw[i]) =
                      Max(Watts(gpu_min_tdp_per_gpu_mw), ProportionalShareW)
    /\ (Scenario300And500 /\ InCycle /\ gpu_statuses = (0 :> 0 @@ 1 :> 0)) =>
          new_limits_mw = (0 :> 150000 @@ 1 :> 250000)

\* C7 (amended): in a passive cycle and in the start-up assignment the budget
\* is split evenly: device i gets min(max_i, max(configMin, budget div n));
\* in the scenario with utilizations (0, 0) the targets are 200 W and 200 W.
C7_EvenShare ==
    /\ (PassiveCycle \/ InStartupAssignment) =>
          \A i \in DOMAIN new_limits_mw :
              new_limits_mw[i] =
                  Min(gpu_max_tdp_limits_mw[i],
                      Max(gpu_min_tdp_per_gpu_mw, gpu_max_tdp_total_mw \div num_gpus))
    /\ (Scenario300And500 /\ InCycle /\ gpu_statuses = (0 :> 0 @@ 1 :> 0)) =>
          new_limits_mw = (0 :> 200000 @@ 1 :> 200000)

\* C7 witness: the scenario's passive cycle, both utilizations read as 0.
C7_Witness ==
    /\ Scenario300And500
    /\ pc = "run_apply"
    /\ read_failed = {}
    /\ gpu_statuses = (0 :> 0 @@ 1 :> 0)
    /\ new_limits_mw = (0 :> 200000 @@ 1 :> 200000)

\* The devices below the active level in this cycle.
InactiveGpus ==
    {i \in DOMAIN gpu_statuses : gpu_statuses[i] < gpu_active_level}

\* C8 (as claimed): in an active cycle every inactive device gets exactly
\* configMin, and a single active device gets
\* min(hwMax, max(configMin, budget - |inactive| x configMin)).
C8_InactiveAtConfigMin ==
    ActiveCycle =>
        /\ \A i \in InactiveGpus : new_limits_mw[i] = gpu_min_tdp_per_gpu_mw
        /\ \A a \in DOMAIN gpu_statuses :
              (DOMAIN gpu_statuses) \ InactiveGpus = {a} =>
                  new_limits_mw[a] =
                      Min(gpu_max_tdp_limits_mw[a],
                          Max(gpu_min_tdp_per_gpu_mw,
                              gpu_max_tdp_total_mw
                                - Cardinality(InactiveGpus) * gpu_min_tdp_per_gpu_mw))

\* The minimum a device is given: configMin, capped by the device's maximum.
FloorOf(i) == Min(gpu_min_tdp_per_gpu_mw, gpu_max_tdp_limits_mw[i])

\* C8 (amended): in an active cycle every inactive device gets
\* min(configMin, max_i), and a single active device a gets
\* min(max_a, max(floor_a, budget - sum of the inactive devices' floors));
\* in the scenario with utilizations (5, 25), and with any other utilization
\* of device 0 below the active level, the targets are 50 W and 350 W.
C8_InactiveAtFloor ==
    /\ ActiveCycle =>
          /\ \A i \in InactiveGpus : new_limits_mw[i] = FloorOf(i)
          /\ \A a \in DOMAIN gpu_statuses :
                (DOMAIN gpu_statuses) \ InactiveGpus = {a} =>
                    new_limits_mw[a] =
                        Min(gpu_max_tdp_limits_mw[a],
                            Max(FloorOf(a),
                                gpu_max_tdp_total_mw
                                  - SumOver([i \in InactiveGpus |-> FloorOf(i)],
                                            InactiveGpus)))
    /\ (Scenario300And500 /\ InCycle /\ gpu_statuses[0] < gpu_active_level
          /\ gpu_statuses[1] = 25) =>
          new_limits_mw = (0 :> 50000 @@ 1 :> 350000)

\* C8 witness: the scenario's active cycle, device 0 at 5, device 1 at 25.
C8_Witness ==
    /\ Scenario300And500
    /\ pc = "run_apply"
    /\ read_failed = {}
    /\ gpu_statuses = (0 :> 5 @@ 1 :> 25)
    /\ new_limits_mw = (0 :> 50000 @@ 1 :> 350000)

\* Every device is active and all maxima are equal.
AllActiveEqualMax ==
    /\ InCycle
    /\ InactiveGpus = {}
    /\ \A i, j \in DOMAIN gpu_max_tdp_limits_mw :
          gpu_max_tdp_limits_mw[i] = gpu_max_tdp_limits_mw[j]

\* Device i comes before device j in the order the active branch serves them:
\* higher utilization first, equal utilizations by index.
ServedBefore(i, j) ==
    \/ gpu_statuses[i] > gpu_statuses[j]
    \/ gpu_statuses[i] = gpu_statuses[j] /\ i < j

\* C9 (as claimed): with every device active and equal maxima, any two
\* targets differ by at most 1 W.
C9_EqualSplitWithinOneWatt ==
    AllActiveEqualMax =>
        \A i, j \in DOMAIN new_limits_mw :
            new_limits_mw[i] - new_limits_mw[j] <= 1000

\* C9 (amended): with every device active and equal maxima, the budget above
\* the floors is handed out in descending order of utilization (equal
\* utilizations by index), each device taking what it can up to its maximum:
\* a device served earlier never gets less than one served later, at most one
\* device ends strictly between its floor and its maximum, and every device
\* served before it is at its maximum, every device served after it at its floor.
C9_GreedyByUtilization ==
    AllActiveEqualMax =>
        /\ \A i, j \in DOMAIN new_limits_mw :
              ServedBefore(i, j) => new_limits_mw[i] >= new_limits_mw[j]
        /\ \A i, j \in DOMAIN new_limits_mw :
              (ServedBefore(i, j) /\ new_limits_mw[j] > FloorOf(j)) =>
                  new_limits_mw[i] = gpu_max_tdp_limits_mw[i]

\* C9 witness: two devices of 300 W, budget 400 W, configMin 50 W, both
\* active: the busier device 1 gets 300 W, device 0 gets 100 W.
C9_Witness ==
    /\ AllActiveEqualMax
    /\ num_gpus = 2
    /\ gpu_statuses = (0 :> 25 @@ 1 :> 90)
    /\ gpu_max_tdp_total_mw = 400000
    /\ new_limits_mw = (0 :> 100000 @@ 1 :> 300000)

\* An allocation is at hand: the start-up assignment or a cycle's.
AllocationComputed == InStartupAssignment \/ InCycle

\* C10 (as claimed): with the budget below n x configMin, the start-up
\* assignment and every cycle, passive or active, give every device exactly
\* configMin, and the overrun is logged.
C10_DegenerateAllAtConfigMin ==
    (AllocationComputed
       /\ gpu_max_tdp_total_mw < num_gpus * gpu_min_tdp_per_gpu_mw) =>
        /\ \A i \in DOMAIN new_limits_mw : new_limits_mw[i] = gpu_min_tdp_per_gpu_mw
        /\ overrun_log # "none"

\* The sum of the devices' floors.
SumOfFloors ==
    SumOver([i \in DOMAIN gpu_max_tdp_limits_mw |-> FloorOf(i)],
            DOMAIN gpu_max_tdp_limits_mw)

\* C10 (amended): with the budget below the sum of the floors
\* min(configMin, max_i), the start-up assignment and every cycle, passive or
\* active, give every device exactly its floor (configMin for a device whose
\* maximum is at least configMin), the overrun is logged, and the loop keeps
\* running: the applier can take its next step and the cycle ends in its
\* sleep unless a write is refused for lack of permission or a termination
\* signal arrives.
C10_DegenerateAllAtFloor ==
    /\ []((AllocationComputed /\ gpu_max_tdp_total_mw < SumOfFloors) =>
            /\ \A i \in DOMAIN new_limits_mw : new_limits_mw[i] = FloorOf(i)
            /\ overrun_log # "none"
            /\ (pc = "run_apply" => ENABLED SetTdpLimit)
            /\ (pc = "sleep" => ENABLED Sleep))
    /\ [][(InCycle /\ gpu_max_tdp_total_mw < SumOfFloors /\ pc = "run_apply") =>
            \/ pc' = "run_apply" /\ idx' = idx + 1
            \/ pc' = "sleep" /\ idx' = Len(handles)
            \/ pc' = "finally" /\ PermissionDeniedInLoop'
            \/ SignalHandler]_vars

\* C10 witness: budget 50 W, configMin 100 W, two devices with maxima above
\* 100 W, an active cycle: both get 100 W, the overrun is logged as an error,
\* and the cycle has reached its sleep.
C10_Witness ==
    /\ gpu_max_tdp_total_mw = 50000
    /\ gpu_min_tdp_per_gpu_mw = 100000
    /\ num_gpus = 2
    /\ ActiveCycle
    /\ new_limits_mw = (0 :> 100000 @@ 1 :> 100000)
    /\ overrun_log = "error"
    /\ pc = "sleep"

\* The devices at or above the active level in this cycle.
ActiveIndices == (DOMAIN gpu_statuses) \ InactiveGpus

\* The active device the active branch serves first.
FirstServed ==
    CHOOSE a \in ActiveIndices : \A b \in ActiveIndices \ {a} : ServedBefore(a, b)

FailedInCall ==
    {i \in DOMAIN write_log : write_log[i].result \in {"not_supported", "error"}}

\* The thread is inside _set_tdp_limits, about to handle handles[idx + 1].
InApply == pc \in {"startup_apply", "run_apply"} /\ idx < Len(handles)

\* C12: a write that fails with an error other than the permission error
\* skips only its own device: the call goes on with the next handle (or is
\* complete, after the last one); with a failed write behind it in the same
\* call, the device whose turn it is still gets its write whenever its
\* clamped target differs from its last applied limit; and a complete call
\* has gone through every device, each one written to or already at its
\* clamped target.
C12_FailedWriteSkipsOnlyItsDevice ==
    /\ [][InApply =>
            LET i == handles[idx + 1]
            IN /\ (i \in FailedInCall' =>
                      pc' = AfterApply(pc, idx, Len(handles)) /\ idx' = idx + 1)
               /\ (FailedInCall # {}
                     /\ NeedsWrite(last_tdp_limits_mw, i, LimitToSet(i))) =>
                      \/ i \in SetLimitCalls' /\ write_log'[i].limit = LimitToSet(i)
                      \/ SignalHandler]_vars
    /\ [](ApplyComplete =>
            /\ DOMAIN write_log = {handles[j] : j \in 1 .. Len(handles)}
            /\ \A i \in DOMAIN write_log :
                  i \in SetLimitCalls \/ last_tdp_limits_mw[i] = LimitToSet(i))

\* C12 witness: a cycle's call over two devices is complete; the write to
\* device 0 failed, the write to device 1 was issued after it and succeeded.
C12_Witness ==
    /\ pc = "sleep"
    /\ 0 \in FailedInCall
    /\ 1 \in SetLimitCalls /\ write_log[1].result = "ok"

\* The devices that answer nvmlDeviceSetPowerManagementLimit with
\* NVML_ERROR_NOT_SUPPORTED.
NotSettable == {i \in DOMAIN devices : ~devices[i].settable}

\* C13 (as claimed): a device whose write failed with not-supported (at the
\* latest in the start-up call, which tries every device) gets no setLimit
\* call in any cycle of the loop.
C13_NotSupportedDeviceIsSkipped ==
    InCycle => SetLimitCalls \cap NotSettable = {}

\* C13 (amended): nothing remembers a not-supported failure: the failed write
\* leaves the device without a last applied limit, so every later call of the
\* applier, in every cycle, issues the setLimit call for it again (and fails
\* again), while the hardware limit of the device stays what it was.
C13_NotSupportedDeviceIsRetried ==
    \A i \in NotSettable :
        /\ i \notin DOMAIN last_tdp_limits_mw
        /\ nvml_limit[i] = devices[i].dflt
        /\ i \in DOMAIN write_log =>
              /\ i \in SetLimitCalls
              /\ write_log[i].result = "not_supported"
        /\ ApplyComplete => i \in DOMAIN write_log

\* C13 witness: a cycle's call is complete and has issued the setLimit call
\* for a device that does not support it, after the start-up call had.
C13_Witness ==
    /\ pc = "sleep"
    /\ num_gpus = 2
    /\ \E i \in NotSettable : i \in SetLimitCalls
    /\ \E i \in SetLimitCalls : write_log[i].result = "ok"

\* The devices whose limit queries ended in a RuntimeError at start-up.
QueryFailed ==
    {i \in DOMAIN query_log : query_log[i] \in {"error", "fallback_error"}}

\* Construction was abandoned: the thread is in main()'s except clauses or
\* the process has ended, nothing was written, the loop was never entered.
ConstructionAborted ==
    /\ pc \in {"main_except", "exit"}
    /\ ~balancer_instance
    /\ last_tdp_limits_mw = EmptyDict
    /\ write_log = EmptyDict
    /\ gpu_statuses = EmptyDict

\* C14 (as claimed): with the library initialized, zero devices, or a
\* constraints query that fails with any error, not-supported included, for
\* some device, abort the construction: no write, no loop.
C14_AnyQueryFailureAborts ==
    (nvml_state # "uninit"
       /\ (DOMAIN devices = {} \/ \E i \in DOMAIN query_log : query_log[i] # "ok"))
    => ConstructionAborted

\* C14 (amended): with the library initialized, construction is abandoned
\* (no write, no loop) when there is no device, when a constraints query
\* fails with an error other than not-supported, or when it fails with
\* not-supported and the default-limit query fails too.  A constraints query
\* that fails with not-supported does not abort: the default limit is stored
\* as the device's maximum, and with every device's limit stored construction
\* goes on to the initial assignment.
C14_FatalStartupErrorsAbort ==
    /\ []((nvml_state # "uninit" /\ (DOMAIN devices = {} \/ QueryFailed # {}))
            => ConstructionAborted)
    /\ [](\A i \in DOMAIN gpu_max_tdp_limits_mw :
             /\ query_log[i] \in {"ok", "fallback"}
             /\ gpu_max_tdp_limits_mw[i] =
                   IF query_log[i] = "ok" THEN devices[i].max ELSE devices[i].dflt)
    /\ [][(pc = "construct" /\ nvml_state' = "init"
             /\ DOMAIN devices # {} /\ QueryFailed' = {})
            => /\ pc' = "initial_setup"
               /\ DOMAIN gpu_max_tdp_limits_mw' = DOMAIN devices]_vars

\* C14 witness: a device without the constraints query got its default limit
\* as maximum, and the loop is running and has written to it.
C14_Witness ==
    /\ pc = "sleep"
    /\ \E i \in DOMAIN query_log :
          /\ query_log[i] = "fallback"
          /\ gpu_max_tdp_limits_mw[i] = devices[i].dflt
          /\ i \in SetLimitCalls /\ write_log[i].result = "ok"

\* C15: recoverable errors (failed utilization reads, failed writes other
\* than the permission error) never end a cycle early.  In the loop the
\* thread can always take its next step; a cycle moves from the reads to the
\* applier, through the handles one by one, to its sleep, and from the sleep
\* to the next cycle; it leaves this path only by a write refused for lack of
\* permission or by a termination signal.  With the thread always scheduled,
\* the loop goes through its sleep again and again unless the process ends.
C15_RecoverableErrorsStayInCycle ==
    /\ [](/\ pc = "loop" => ENABLED BalanceCycle
          /\ pc = "run_apply" => ENABLED SetTdpLimit
          /\ pc = "sleep" => ENABLED Sleep)
    /\ [][(InRunLoop /\ ~SignalHandler /\ ~PermissionDeniedInLoop') =>
            \/ pc = "loop" /\ pc' = "run_apply"
            \/ pc = "run_apply" /\ idx' = idx + 1
                 /\ pc' = (IF idx' < Len(handles) THEN "run_apply" ELSE "sleep")
            \/ pc = "sleep" /\ pc' = "loop"]_vars
    /\ (<>(pc = "exit") \/ []<>(pc = "sleep"))

\* C15 witness: a cycle over two devices in which a utilization read failed
\* and a write failed has reached its sleep.
C15_Witness ==
    /\ pc = "sleep"
    /\ num_gpus = 2
    /\ read_failed # {}
    /\ FailedInCall # {}

\* C16 (as claimed): every fatal error unwinds to the shutdown sequence: an
\* exception that reaches main()'s except clauses after the library was
\* initialized (zero devices, failed limit query, permission error in the
\* initial assignment) has shutdown() executed before the process exits, and
\* so has every exit from the loop through run()'s finally block.
C16_FatalErrorsReachShutdown ==
    /\ [][(MainExcept /\ nvml_state # "uninit") =>
            shutdown_calls' = shutdown_calls + 1]_vars
    /\ [][(pc = "finally" /\ pc' = "exit") => shutdown_calls' >= 1]_vars

\* C17: a shutdown() that is called after an earlier call (the signal
\* handler's, followed by the one of run()'s finally block) finds the library
\* shut down: for every handle the mode query raises, so no
\* nvmlDeviceSetPersistenceMode call is issued; no limit is written; the
\* device and library state stay as the first call left them; nothing is
\* raised, the call returns and the process ends.  shutdown() is called at
\* most twice.
C17_SecondShutdownChangesNothing ==
    /\ [](shutdown_calls = Len(shutdown_log) /\ shutdown_calls <= 2)
    /\ [][(shutdown_calls >= 1 /\ shutdown_calls' # shutdown_calls) =>
            /\ shutdown_calls' = shutdown_calls + 1
            /\ \A i \in DOMAIN shutdown_log'[shutdown_calls'] :
                  shutdown_log'[shutdown_calls'][i] = "get_failed"
            /\ persistence_mode' = persistence_mode
            /\ nvml_limit' = nvml_limit
            /\ last_tdp_limits_mw' = last_tdp_limits_mw
            /\ nvml_state = "shutdown" /\ nvml_state' = "shutdown"
            /\ pc' = "exit"]_vars

\* C17 witness: shutdown() has run twice; the first call disabled the
\* persistence mode of a device, the second found the library shut down.
C17_Witness ==
    /\ pc = "exit"
    /\ shutdown_calls = 2
    /\ num_gpus = 2
    /\ \E i \in DOMAIN shutdown_log[1] : shutdown_log[1][i] = "disabled"
    /\ \A i \in DOMAIN shutdown_log[2] : shutdown_log[2][i] = "get_failed"

\* The persistence mode of device i when the process started.
EnabledBeforeStartup(i) == devices[i].persistence = "enabled"

\* C18 (as claimed): after start-up followed by a shutdown() whose calls all
\* succeeded, every device's persistence mode is what it was before start-up;
\* a device enabled before is still enabled.
C18_PersistenceRestored ==
    (/\ pc = "exit" /\ shutdown_calls >= 1
     /\ \A i \in DOMAIN shutdown_log[1] : shutdown_log[1][i] # "failed")
    => \A i \in DOMAIN devices : persistence_mode[i] = EnabledBeforeStartup(i)

\* C18 (amended): shutdown() keeps no record of what start-up changed: with
\* the library initialized it calls nvmlDeviceSetPersistenceMode(DISABLED)
\* for every handle whose mode it reads as enabled, whether start-up enabled
\* it or it was enabled before.  After the first shutdown() every device
\* that has a handle has persistence disabled, unless its disable call
\* failed; the disable call is issued exactly for the devices found enabled.
C18_PersistenceDisabledAtShutdown ==
    /\ [](shutdown_calls >= 1 =>
            /\ DOMAIN shutdown_log[1] = {handles[j] : j \in 1 .. Len(handles)}
            /\ \A i \in DOMAIN shutdown_log[1] :
                  persistence_mode[i] <=> shutdown_log[1][i] = "failed")
    /\ [][(shutdown_calls = 0 /\ shutdown_calls' = 1) =>
            \A i \in DOMAIN shutdown_log'[1] :
                /\ shutdown_log'[1][i] \in {"disabled", "failed"}
                      <=> persistence_mode[i]
                /\ shutdown_log'[1][i] = "disabled" => ~persistence_mode'[i]]_vars

\* C18 witness: after shutdown() a device that had persistence enabled
\* before start-up has it disabled, and so has one that start-up enabled.
C18_Witness ==
    /\ pc = "exit"
    /\ shutdown_calls >= 1
    /\ \E i, j \in DOMAIN shutdown_log[1] :
          /\ EnabledBeforeStartup(i) /\ ~EnabledBeforeStartup(j)
          /\ shutdown_log[1][i] = "disabled" /\ shutdown_log[1][j] = "disabled"
          /\ ~persistence_mode[i] /\ ~persistence_mode[j]

\* Start-up is over and the process has not begun to end.
AfterStartup == pc \in {"initialized", "loop", "run_apply", "sleep"}

\* C19 (as claimed): with the budget at least n x configMin, every maximum at
\* least configMin and every device's limit applied (as a successful start-up
\* assignment leaves them), the limits in force in the hardware sum to at
\* most the budget in every state after start-up, between two writes of a
\* cycle included.
C19_CeilingSumWithinBudget ==
    (/\ AfterStartup
     /\ gpu_max_tdp_total_mw >= num_gpus * gpu_min_tdp_per_gpu_mw
     /\ \A i \in DOMAIN gpu_max_tdp_limits_mw :
           gpu_max_tdp_limits_mw[i] >= gpu_min_tdp_per_gpu_mw
     /\ DOMAIN last_tdp_limits_mw = DOMAIN devices)
    => SumValues(nvml_limit) <= gpu_max_tdp_total_mw

\* C20 (as claimed): in an active cycle with the budget at least
\* n x configMin, every target lies between configMin and the device's
\* maximum, and the targets sum to at most the budget.
C20_ActiveWithinConfigMinAndMax ==
    (ActiveCycle /\ gpu_max_tdp_total_mw >= num_gpus * gpu_min_tdp_per_gpu_mw) =>
        /\ \A i \in DOMAIN new_limits_mw :
              /\ gpu_min_tdp_per_gpu_mw <= new_limits_mw[i]
              /\ new_limits_mw[i] <= gpu_max_tdp_limits_mw[i]
        /\ SumValues(new_limits_mw) <= gpu_max_tdp_total_mw

\* C20 (amended): in an active cycle with the budget at least n x configMin,
\* every target lies between min(configMin, max_i) and max_i (so it is at
\* least configMin for every device whose maximum is at least configMin, and
\* below configMin for the others), and the targets sum to at most the budget.
C20_ActiveWithinFloorAndMax ==
    (ActiveCycle /\ gpu_max_tdp_total_mw >= num_gpus * gpu_min_tdp_per_gpu_mw) =>
        /\ DOMAIN new_limits_mw = Indices(num_gpus)
        /\ \A i \in DOMAIN new_limits_mw :
              /\ FloorOf(i) <= new_limits_mw[i]
              /\ new_limits_mw[i] <= gpu_max_tdp_limits_mw[i]
              /\ gpu_max_tdp_limits_mw[i] < gpu_min_tdp_per_gpu_mw =>
                    new_limits_mw[i] < gpu_min_tdp_per_gpu_mw
        /\ SumValues(new_limits_mw) <= gpu_max_tdp_total_mw

\* C20 witness: an active cycle over two devices, budget at least
\* n x configMin, that uses the whole budget and leaves an active device
\* strictly between its floor and its maximum.
C20_Witness ==
    /\ ActiveCycle
    /\ num_gpus = 2
    /\ gpu_max_tdp_total_mw >= num_gpus * gpu_min_tdp_per_gpu_mw
    /\ SumValues(new_limits_mw) = gpu_max_tdp_total_mw
    /\ \E a \in ActiveIndices :
          /\ FloorOf(a) < new_limits_mw[a]
          /\ new_limits_mw[a] < gpu_max_tdp_limits_mw[a]

\* C21: every entry of last_tdp_limits_mw is the value of the last
\* successful nvmlDeviceSetPowerManagementLimit call for its device, which
\* (nothing else sets limits) is the limit in force in the hardware, and a
\* device without an entry has never been written to; the map changes only
\* in a step of _set_tdp_limits whose write succeeded, and then only in the
\* written device's entry, which becomes the value passed; a failed write
\* and a skipped write leave the map as it was.
C21_LastAppliedIsLastSuccessfulWrite ==
    /\ [](\A i \in DOMAIN devices :
            IF i \in DOMAIN last_tdp_limits_mw
            THEN last_tdp_limits_mw[i] = nvml_limit[i]
            ELSE nvml_limit[i] = devices[i].dflt)
    /\ [][InApply =>
            LET i == handles[idx + 1]
            IN IF i \in DOMAIN write_log' /\ write_log'[i].result = "ok"
               THEN /\ i \in DOMAIN last_tdp_limits_mw'
                    /\ last_tdp_limits_mw'[i] = write_log'[i].limit
                    /\ \A j \in DOMAIN last_tdp_limits_mw' \ {i} :
                          /\ j \in DOMAIN last_tdp_limits_mw
                          /\ last_tdp_limits_mw'[j] = last_tdp_limits_mw[j]
               ELSE last_tdp_limits_mw' = last_tdp_limits_mw]_vars
    /\ [][~InApply => last_tdp_limits_mw' = last_tdp_limits_mw]_vars

\* C21 witness: in one cycle's call, the write to device 0 failed and left
\* its entry, an earlier successful write, in place and different from the
\* value refused; device 1 was skipped.
C21_Witness ==
    /\ pc = "sleep"
    /\ 0 \in DOMAIN write_log /\ write_log[0].result = "error"
    /\ 0 \in DOMAIN last_tdp_limits_mw
    /\ last_tdp_limits_mw[0] # write_log[0].limit
    /\ 1 \in DOMAIN write_log /\ write_log[1].result = "skipped"

\* The device whose turn it is in _set_tdp_limits has a target and no last
\* applied limit: this is the first application for it.
FirstApplication ==
    /\ InApply
    /\ handles[idx + 1] \in DOMAIN new_limits_mw
    /\ handles[idx + 1] \notin DOMAIN last_tdp_limits_mw

\* C22 as stated: on the first application for a device, when the clamped
\* target equals the limit in force in the hardware, the write is skipped:
\* no nvmlDeviceSetPowerManagementLimit call, nothing recorded.
C22_FirstWriteSkippedWhenInForce ==
    [][(FirstApplication
          /\ LimitToSet(handles[idx + 1]) = nvml_limit[handles[idx + 1]]) =>
            \/ /\ handles[idx + 1] \notin SetLimitCalls'
               /\ last_tdp_limits_mw' = last_tdp_limits_mw
               /\ nvml_limit' = nvml_limit
            \/ SignalHandler]_vars

\* C22, amended: the limit in force in the hardware is never read; on the
\* first application for a device nvmlDeviceSetPowerManagementLimit is
\* always called with the clamped target, also when that is the limit
\* already in force, and the target is recorded if the call succeeds.  Only
\* a termination signal arriving first prevents the call.
C22_FirstApplicationAlwaysWrites ==
    [][FirstApplication =>
            LET i == handles[idx + 1]
            IN \/ /\ i \in SetLimitCalls'
                  /\ write_log'[i].limit = LimitToSet(i)
                  /\ write_log'[i].result = "ok" =>
                        /\ i \in DOMAIN last_tdp_limits_mw'
                        /\ last_tdp_limits_mw'[i] = LimitToSet(i)
               \/ SignalHandler]_vars

\* C22 witness: the start-up call has written to device 0, successfully, the
\* limit that was already in force (no write came before: the hardware was
\* at the device's default limit).
C22_Witness ==
    /\ InStartupAssignment
    /\ 0 \in SetLimitCalls
    /\ write_log[0].result = "ok"
    /\ write_log[0].limit = devices[0].dflt
    /\ last_tdp_limits_mw[0] = devices[0].dflt

====
